---- MODULE Spec2Model ----
(***************************************************************************)
(* A model of src/school.tsx: the persistence gateway (mockAPI over        *)
(* localStorage), the add-school form (validation, image gate, submit),    *)
(* the listing view (committed/draft filters, suggestions) and the         *)
(* application shell that switches between them.                           *)
(*                                                                         *)
(* Text is modelled as a sequence of one-character strings, so that        *)
(* trimming, lower-casing, substring and prefix tests and the two regular  *)
(* expressions are computed character by character.                        *)
(***************************************************************************)
EXTENDS Integers, Sequences, FiniteSets, TLC

VARIABLES
    \* application shell (SchoolManagementApp)
    currentPage,      \* "list" | "add"
    showSuccess,      \* BOOLEAN
    successTimers,    \* number of pending 2000 ms timers of handleAddSuccess
    \* persistence gateway (mockAPI over localStorage)
    storage,          \* localStorage item 'schools': NoItem or the stored array
    addCalls,         \* addSchool calls past their call and before their timer
    loadCalls,        \* getSchools calls past their call and before their timer
    addResult,        \* what the last settled addSchool promise settled with
    \* AddSchoolForm
    formData,
    errors,
    formLoading,
    imagePreview,
    readers,          \* FileReaders started by handleImageChange, not yet ended
    \* ShowSchools
    schools,
    listLoading,
    filters,          \* the committed filter
    tempFilters,      \* the draft filter
    showSuggestions,
    filteredSchools,  \* useMemo over (schools, filters)
    uniqueValues,     \* useMemo over schools
    focused,          \* which filter input holds the focus, or NoField
    hideTimers,       \* per field, pending 200 ms timers started by onBlur
    lastEvent         \* the handler of the mounted listing view that ran last

shellVars == <<currentPage, showSuccess, successTimers>>
gatewayVars == <<storage, addCalls, loadCalls, addResult>>
formVars == <<formData, errors, formLoading, imagePreview, readers>>
listVars == <<schools, listLoading, filters, tempFilters, showSuggestions,
              filteredSchools, uniqueValues, focused, hideTimers, lastEvent>>
vars == <<currentPage, showSuccess, successTimers, storage, addCalls, loadCalls,
          addResult, formData, errors, formLoading, imagePreview, readers,
          schools, listLoading, filters, tempFilters, showSuggestions,
          filteredSchools, uniqueValues, focused, hideTimers, lastEvent>>

-----------------------------------------------------------------------------
(* Bounds of the model.                                                    *)

\* longest stored sequence the form path may build
MaxSchools == 2
\* addSchool / getSchools calls that may be waiting on their timers at once
MaxInFlight == 2
\* pending blur timers per filter field
MaxTimers == 2
\* pending success-screen timers
MaxSuccessTimers == 2
\* FileReaders reading at once
MaxReaders == 1
\* longest record sequence the matching inputs are drawn from
MaxMatchLen == 2
\* longest record sequence the suggestion inputs are drawn from
MaxSuggestLen == 6

-----------------------------------------------------------------------------
(* Text.                                                                   *)

EmptyStr == << >>

\* the characters String.prototype.trim removes and \s matches
Whitespace == {" ", "\t"}

Digits == {"0", "1", "2", "3", "4", "5", "6", "7", "8", "9"}

UpperLetters == <<"A", "B", "C", "D", "E", "F", "G", "H", "I", "J", "K", "L", "M",
                  "N", "O", "P", "Q", "R", "S", "T", "U", "V", "W", "X", "Y", "Z">>
LowerLetters == <<"a", "b", "c", "d", "e", "f", "g", "h", "i", "j", "k", "l", "m",
                  "n", "o", "p", "q", "r", "s", "t", "u", "v", "w", "x", "y", "z">>

ToLowerChar(c) ==
    IF \E i \in 1..Len(UpperLetters) : UpperLetters[i] = c
    THEN LowerLetters[CHOOSE i \in 1..Len(UpperLetters) : UpperLetters[i] = c]
    ELSE c

\* String.prototype.toLowerCase
ToLowerCase(s) == [i \in 1..Len(s) |-> ToLowerChar(s[i])]

SetMin(S) == CHOOSE x \in S : \A y \in S : x <= y
SetMax(S) == CHOOSE x \in S : \A y \in S : y <= x

\* String.prototype.trim
Trim(s) ==
    LET keep == {i \in 1..Len(s) : s[i] \notin Whitespace}
    IN  IF keep = {} THEN EmptyStr ELSE SubSeq(s, SetMin(keep), SetMax(keep))

\* a string used as a condition: the empty string is falsy, every other truthy
Truthy(s) == Len(s) > 0

\* String.prototype.includes
Includes(s, t) == \E k \in 0..(Len(s) - Len(t)) : SubSeq(s, k + 1, k + Len(t)) = t

\* String.prototype.startsWith
StartsWith(s, t) == Len(t) <= Len(s) /\ SubSeq(s, 1, Len(t)) = t

Range(s) == {s[i] : i \in 1..Len(s)}

\* Array.prototype.slice(0, n)
Slice(s, n) == SubSeq(s, 1, IF Len(s) < n THEN Len(s) ELSE n)

\* Array.from(new Set(s)): the distinct elements, each at its first occurrence
RECURSIVE Distinct(_)
Distinct(s) ==
    IF Len(s) = 0 THEN << >>
    ELSE LET front == Distinct(SubSeq(s, 1, Len(s) - 1))
             last == s[Len(s)]
         IN  IF last \in Range(front) THEN front ELSE Append(front, last)

\* all sequences over S of length at most n
SeqsUpTo(S, n) == UNION {[1..k -> S] : k \in 0..n}

\* those of them that hold no element twice
RECURSIVE DistinctSeqsUpTo(_, _)
DistinctSeqsUpTo(S, n) ==
    IF n = 0 THEN {<< >>}
    ELSE LET shorter == DistinctSeqsUpTo(S, n - 1)
         IN  shorter \cup UNION {{Append(s, x) : x \in S \ Range(s)} : s \in shorter}

-----------------------------------------------------------------------------
(* Records.                                                                *)

FilterFields == {"name", "city", "state"}
NoField == "none"

NoImage == "null"

\* localStorage.getItem('schools'): null until the first setItem
NoItem == [present |-> FALSE, value |-> << >>]
Item(list) == [present |-> TRUE, value |-> list]

EmptyFilter == [name |-> EmptyStr, city |-> EmptyStr, state |-> EmptyStr]
AllHidden == [name |-> FALSE, city |-> FALSE, state |-> FALSE]
NoTimers == [name |-> 0, city |-> 0, state |-> 0]

\* new Date().toISOString() at the moments the model distinguishes
Timestamps == {<<"2", "0", "2", "5", "-", "0", "1", "-", "0", "1", "T", "0", "0",
                 ":", "0", "0", ":", "0", "0", ".", "0", "0", "0", "Z">>}

\* { id, ...schoolData, createdAt }
NewSchool(id, schoolData, createdAt) ==
    [id |-> id,
     name |-> schoolData.name, address |-> schoolData.address,
     city |-> schoolData.city, state |-> schoolData.state,
     contact |-> schoolData.contact, email_id |-> schoolData.email_id,
     image |-> schoolData.image,
     createdAt |-> createdAt]

\* JSON.parse(localStorage.getItem('schools') || '[]')
StoredSchools(item) == IF item.present THEN item.value ELSE << >>

-----------------------------------------------------------------------------
(* ShowSchools: the pure parts.                                            *)

\* useMemo uniqueValues
UniqueValuesOf(list) ==
    [f \in FilterFields |-> Distinct([i \in 1..Len(list) |-> list[i][f]])]

\* FilterBy comparing the record's text as stored, not lower-cased
FilterByCaseSensitive(list, f, text) ==
    IF Truthy(Trim(text))
    THEN SelectSeq(list, LAMBDA s : Includes(s[f], ToLowerCase(text)))
    ELSE list

\* one "if (filters.f.trim()) filtered = filtered.filter(...)" step
FilterBy(list, f, text) ==
    IF Truthy(Trim(text))
    THEN SelectSeq(list, LAMBDA s : Includes(ToLowerCase(s[f]), ToLowerCase(text)))
    ELSE list

\* useMemo filteredSchools
FilterSchools(list, flt) ==
    FilterBy(FilterBy(FilterBy(list, "name", flt.name), "city", flt.city),
             "state", flt.state)

\* slice(0, 5) in getSuggestions
SuggestionLimit == 5

\* SuggestionsOf matching anywhere in the value, not at its start
SuggestionsOfSubstring(unique, draft, field) ==
    LET value == ToLowerCase(draft[field])
    IN  IF ~Truthy(value) THEN << >>
        ELSE Slice(SelectSeq(unique[field],
                             LAMBDA item : Includes(ToLowerCase(item), value)),
                   SuggestionLimit)

\* getSuggestions(field), over the memoised distinct values and the draft
SuggestionsOf(unique, draft, field) ==
    LET value == ToLowerCase(draft[field])
    IN  IF ~Truthy(value) THEN << >>
        ELSE Slice(SelectSeq(unique[field],
                             LAMBDA item : StartsWith(ToLowerCase(item), value)),
                   SuggestionLimit)

GetSuggestions(field) == SuggestionsOf(uniqueValues, tempFilters, field)

\* const hasActiveFilters = filters.name || filters.city || filters.state
HasActiveFilters == Truthy(filters.name) \/ Truthy(filters.city) \/ Truthy(filters.state)

ListMounted(page, success) == page = "list" /\ ~success
FormMounted(page, success) == page = "add" /\ ~success

\* the filter panel is rendered: the view is mounted and past "if (loading)"
PanelShown == ListMounted(currentPage, showSuccess) /\ ~listLoading

\* what a render recomputes
Render(list, flt) ==
    /\ filteredSchools' = FilterSchools(list, flt)
    /\ uniqueValues' = UniqueValuesOf(list)

-----------------------------------------------------------------------------
(* ShowSchools: the handlers.  startTransition only lowers the priority of *)
(* the updates it wraps; they are applied together, in the handler's step. *)

\* HandleTempFilterChange committing the draft on every keystroke
HandleTempFilterChangeLive(name, value) ==
    /\ PanelShown
    /\ tempFilters' = [tempFilters EXCEPT ![name] = value]
    /\ showSuggestions' = [showSuggestions EXCEPT ![name] = Len(value) > 0]
    /\ filters' = tempFilters'
    /\ Render(schools, tempFilters')
    /\ lastEvent' = "edit"
    /\ UNCHANGED <<schools, listLoading, focused, hideTimers>>
    /\ UNCHANGED <<shellVars, gatewayVars, formVars>>

\* onChange of the three filter inputs
HandleTempFilterChange(name, value) ==
    /\ PanelShown
    /\ tempFilters' = [tempFilters EXCEPT ![name] = value]
    /\ showSuggestions' = [showSuggestions EXCEPT ![name] = Len(value) > 0]
    /\ lastEvent' = "edit"
    /\ UNCHANGED <<schools, listLoading, filters, filteredSchools, uniqueValues,
                   focused, hideTimers>>
    /\ UNCHANGED <<shellVars, gatewayVars, formVars>>

HandleSearch ==
    /\ PanelShown
    /\ filters' = tempFilters
    /\ Render(schools, tempFilters)
    /\ lastEvent' = "search"
    /\ UNCHANGED <<schools, listLoading, tempFilters, showSuggestions, focused,
                   hideTimers>>
    /\ UNCHANGED <<shellVars, gatewayVars, formVars>>

HandleKeyPress(key) ==
    /\ PanelShown
    /\ filters' = IF key = "Enter" THEN tempFilters ELSE filters
    /\ Render(schools, IF key = "Enter" THEN tempFilters ELSE filters)
    /\ lastEvent' = IF key = "Enter" THEN "search" ELSE "key"
    /\ UNCHANGED <<schools, listLoading, tempFilters, showSuggestions, focused,
                   hideTimers>>
    /\ UNCHANGED <<shellVars, gatewayVars, formVars>>

\* ClearFilters resetting the committed filter only
ClearFiltersCommittedOnly ==
    /\ PanelShown
    /\ HasActiveFilters
    /\ filters' = EmptyFilter
    /\ Render(schools, EmptyFilter)
    /\ lastEvent' = "clear"
    /\ UNCHANGED <<schools, listLoading, tempFilters, showSuggestions, focused,
                   hideTimers>>
    /\ UNCHANGED <<shellVars, gatewayVars, formVars>>

\* both clear buttons are rendered under hasActiveFilters only
ClearFilters ==
    /\ PanelShown
    /\ HasActiveFilters
    /\ filters' = EmptyFilter
    /\ tempFilters' = EmptyFilter
    /\ showSuggestions' = AllHidden
    /\ Render(schools, EmptyFilter)
    /\ lastEvent' = "clear"
    /\ UNCHANGED <<schools, listLoading, focused, hideTimers>>
    /\ UNCHANGED <<shellVars, gatewayVars, formVars>>

\* SelectSuggestion committing the selected value at once
SelectSuggestionCommitting(field, value) ==
    /\ PanelShown
    /\ showSuggestions[field]
    /\ value \in Range(GetSuggestions(field))
    /\ tempFilters' = [tempFilters EXCEPT ![field] = value]
    /\ showSuggestions' = [showSuggestions EXCEPT ![field] = FALSE]
    /\ filters' = tempFilters'
    /\ Render(schools, tempFilters')
    /\ lastEvent' = "select"
    /\ UNCHANGED <<schools, listLoading, focused, hideTimers>>
    /\ UNCHANGED <<shellVars, gatewayVars, formVars>>

\* a click on an entry of the rendered suggestion list of `field`
SelectSuggestion(field, value) ==
    /\ PanelShown
    /\ showSuggestions[field]
    /\ value \in Range(GetSuggestions(field))
    /\ tempFilters' = [tempFilters EXCEPT ![field] = value]
    /\ showSuggestions' = [showSuggestions EXCEPT ![field] = FALSE]
    /\ lastEvent' = "select"
    /\ UNCHANGED <<schools, listLoading, filters, filteredSchools, uniqueValues,
                   focused, hideTimers>>
    /\ UNCHANGED <<shellVars, gatewayVars, formVars>>

\* onFocus={() => tempFilters.f && setShowSuggestions(prev => ({...prev, f: true}))}
OnFocus(field) ==
    /\ PanelShown
    /\ focused = NoField
    /\ focused' = field
    /\ showSuggestions' = IF Truthy(tempFilters[field])
                          THEN [showSuggestions EXCEPT ![field] = TRUE]
                          ELSE showSuggestions
    /\ lastEvent' = "focus"
    /\ UNCHANGED <<schools, listLoading, filters, tempFilters, filteredSchools,
                   uniqueValues, hideTimers>>
    /\ UNCHANGED <<shellVars, gatewayVars, formVars>>

\* OnBlur hiding the list in the blur step itself, with no timer
OnBlurHidingAtOnce(field) ==
    /\ PanelShown
    /\ focused = field
    /\ hideTimers[field] < MaxTimers
    /\ focused' = NoField
    /\ showSuggestions' = [showSuggestions EXCEPT ![field] = FALSE]
    /\ lastEvent' = "blur"
    /\ UNCHANGED <<schools, listLoading, filters, tempFilters, filteredSchools,
                   uniqueValues, hideTimers>>
    /\ UNCHANGED <<shellVars, gatewayVars, formVars>>

\* onBlur={() => setTimeout(() => setShowSuggestions(...f: false), 200)}
OnBlur(field) ==
    /\ PanelShown
    /\ focused = field
    /\ hideTimers[field] < MaxTimers
    /\ focused' = NoField
    /\ hideTimers' = [hideTimers EXCEPT ![field] = @ + 1]
    /\ lastEvent' = "blur"
    /\ UNCHANGED <<schools, listLoading, filters, tempFilters, showSuggestions,
                   filteredSchools, uniqueValues>>
    /\ UNCHANGED <<shellVars, gatewayVars, formVars>>

\* the 200 ms timer of an onBlur fires
HideTimerFire(field) ==
    /\ hideTimers[field] > 0
    /\ hideTimers' = [hideTimers EXCEPT ![field] = @ - 1]
    /\ showSuggestions' = [showSuggestions EXCEPT ![field] = FALSE]
    /\ lastEvent' = "hide"
    /\ UNCHANGED <<schools, listLoading, filters, tempFilters, filteredSchools,
                   uniqueValues, focused>>
    /\ UNCHANGED <<shellVars, gatewayVars, formVars>>

-----------------------------------------------------------------------------
(* mockAPI.getSchools and loadSchools.  Calls started with the same delay  *)
(* pass their timers in the order they were started.                       *)

\* the state a freshly mounted ShowSchools holds, its effect having run
MountedList ==
    /\ schools = << >>
    /\ listLoading = TRUE
    /\ filters = EmptyFilter
    /\ tempFilters = EmptyFilter
    /\ showSuggestions = AllHidden
    /\ filteredSchools = << >>
    /\ uniqueValues = UniqueValuesOf(<< >>)
    /\ focused = NoField
    /\ hideTimers = NoTimers
    /\ lastEvent = "init"

\* getSchools returns; loadSchools continues after its await
GetSchoolsResolve ==
    /\ Len(loadCalls) > 0
    /\ loadCalls' = Tail(loadCalls)
    /\ IF Head(loadCalls).live
       THEN /\ schools' = StoredSchools(storage)
            /\ listLoading' = FALSE
            /\ Render(StoredSchools(storage), filters)
            /\ lastEvent' = "loaded"
       ELSE UNCHANGED <<schools, listLoading, filteredSchools, uniqueValues, lastEvent>>
    /\ UNCHANGED <<filters, tempFilters, showSuggestions, focused, hideTimers>>
    /\ UNCHANGED <<shellVars, storage, addCalls, addResult, formVars>>

\* the read of the stored item throws; loadSchools logs it and clears loading
GetSchoolsReject ==
    /\ Len(loadCalls) > 0
    /\ loadCalls' = Tail(loadCalls)
    /\ listLoading' = IF Head(loadCalls).live THEN FALSE ELSE listLoading
    /\ lastEvent' = IF Head(loadCalls).live THEN "loadFailed" ELSE lastEvent
    /\ UNCHANGED <<schools, filters, tempFilters, showSuggestions, filteredSchools,
                   uniqueValues, focused, hideTimers>>
    /\ UNCHANGED <<shellVars, storage, addCalls, addResult, formVars>>

-----------------------------------------------------------------------------
(* The texts the inputs are drawn from.                                    *)

TxtSpace == <<" ">>
TxtTab == <<"\t">>
TxtOakHill == <<"O", "a", "k", " ", "H", "i", "l", "l">>
TxtOakridge == <<"O", "a", "k", "r", "i", "d", "g", "e">>
TxtRedOak == <<"R", "e", "d", " ", "O", "a", "k">>
TxtAustin == <<"A", "u", "s", "t", "i", "n">>
TxtAustinLower == <<"a", "u", "s", "t", "i", "n">>
TxtDallas == <<"D", "a", "l", "l", "a", "s">>
TxtTX == <<"T", "X">>
TxtCA == <<"C", "A">>
TxtMainSt == <<"M", "a", "i", "n", " ", "S", "t">>
TxtTenDigits == <<"9", "8", "7", "6", "5", "4", "3", "2", "1", "0">>
TxtMail == <<"a", "@", "b", ".", "c", "o">>

TxtOakOnly == <<"o", "a", "k">>
TxtOakCaps == <<"O", "A", "K">>
TxtOat == <<"O", "a", "t">>
TxtOatMixed == <<"o", "a", "T">>
TxtAlba == <<"A", "l", "b", "a">>
TxtTxMixed == <<"T", "x">>

\* drafts typed into the filter inputs
TxtOaUpper == <<"O", "A">>
TxtT == <<"t">>
TxtOakLower == TxtOakOnly
TxtOakUpper == TxtOakCaps
TxtKH == <<"k", " ", "H">>
TxtAus == <<"A", "U", "S">>
TxtTxLower == <<"t", "x">>
TxtA == <<"a">>

\* values typed into the contact and email inputs
TxtNineDigits == <<"9", "8", "7", "6", "5", "4", "3", "2", "1">>
TxtElevenDigits == <<"9", "8", "7", "6", "5", "4", "3", "2", "1", "0", "1">>
TxtTenWithLetter == <<"9", "8", "7", "6", "5", "4", "3", "2", "x", "0">>
TxtTenThenSpace == <<"9", "8", "7", "6", "5", "4", "3", "2", "1", "0", " ">>
TxtMailNoDot == <<"a", "@", "b">>
TxtMailDotFirst == <<"a", "@", ".", "b">>
TxtMailDotLast == <<"a", "@", "b", ".">>
TxtMailNoLocal == <<"@", "b", ".", "c", "o">>
TxtMailTwoAts == <<"a", "@", "b", "@", "c", ".", "d">>
TxtMailSpace == <<"a", " ", "b", "@", "c", ".", "d">>
TxtMailNoAt == <<"a", "b", ".", "c", "o">>
TxtMailDots == <<"a", ".", "b", "@", "c", ".", "d", ".", "e">>
TxtMailDotBeforeAt == <<"a", ".", "b", "@", "c">>

DataUrl1 == "data:image/png;base64,AAAA"
DataUrl2 == "data:image/jpeg;base64,BBBB"
DataUrl3 == "data:image/png;base64,CCCC"

\* a candidate that passes validateForm, with the given name, city and state
ValidBase(name, city, state) ==
    [name |-> name, address |-> TxtMainSt, city |-> city, state |-> state,
     contact |-> TxtTenDigits, email_id |-> TxtMail, image |-> DataUrl1]

ListBases == {ValidBase(TxtOakHill, TxtAustin, TxtTX),
              ValidBase(TxtOakridge, TxtDallas, TxtTX),
              ValidBase(TxtRedOak, TxtAustinLower, TxtCA)}

\* what a sequence of addSchool calls leaves in the stored item
StoredFrom(bases) ==
    [i \in 1..Len(bases) |-> NewSchool(i, bases[i], CHOOSE t \in Timestamps : TRUE)]

\* stored items holding at most n records over the given candidates
StoredItems(bases, n) ==
    {NoItem} \cup {Item(StoredFrom(b)) : b \in SeqsUpTo(bases, n) \ {<< >>}}

\* those of them that hold no candidate twice
DistinctStoredItems(bases, n) ==
    {NoItem} \cup {Item(StoredFrom(b)) : b \in DistinctSeqsUpTo(bases, n) \ {<< >>}}

ListDrafts == [name |-> {EmptyStr, TxtOakLower},
               city |-> {EmptyStr, TxtAus},
               state |-> {EmptyStr, TxtTxLower}]

MatchDrafts == [name |-> {EmptyStr, TxtSpace, TxtOakUpper, TxtKH},
                city |-> {EmptyStr, TxtTab, TxtAus},
                state |-> {EmptyStr, TxtTxLower, TxtA}]

\* six candidates whose names start with "oa" in some mix of cases and one whose
\* name only contains it; cities and states repeat among them
SuggestBases == {ValidBase(TxtOakHill, TxtAustin, TxtTX),
                 ValidBase(TxtRedOak, TxtAustinLower, TxtCA),
                 ValidBase(TxtOakridge, TxtDallas, TxtTX),
                 ValidBase(TxtOakOnly, TxtAustinLower, TxtTxLower),
                 ValidBase(TxtOakCaps, TxtDallas, TxtCA),
                 ValidBase(TxtOat, TxtAlba, TxtTxMixed),
                 ValidBase(TxtOatMixed, TxtAustin, TxtTX)}

SuggestDrafts == [name |-> {EmptyStr, TxtOaUpper},
                  city |-> {EmptyStr, TxtA},
                  state |-> {EmptyStr, TxtT}]

Keys == {"Enter", "a"}

-----------------------------------------------------------------------------
(* AddSchoolForm: its state at construction.                               *)

InitialFormData ==
    [name |-> EmptyStr, address |-> EmptyStr, city |-> EmptyStr, state |-> EmptyStr,
     contact |-> EmptyStr, email_id |-> EmptyStr, image |-> NoImage]

ErrorKeys == {"name", "address", "city", "state", "contact", "email_id", "image",
              "submit"}

\* An errors object, by key.  The component reads errors[key] only as a
\* condition, where an absent key and a key holding '' are both falsy, so both
\* are "" here.
NoErrors == [k \in ErrorKeys |-> ""]

\* no addSchool promise has settled yet
NoResult == [kind |-> "none", value |-> << >>]

UnmountedForm ==
    /\ formData = InitialFormData
    /\ errors = NoErrors
    /\ formLoading = FALSE
    /\ imagePreview = NoImage
    /\ readers = << >>

-----------------------------------------------------------------------------
(* AddSchoolForm: validation.                                              *)

MsgNameRequired == "School name is required"
MsgAddressRequired == "Address is required"
MsgCityRequired == "City is required"
MsgStateRequired == "State is required"
MsgContactRequired == "Contact number is required"
MsgContactFormat == "Contact must be 10 digits"
MsgEmailRequired == "Email is required"
MsgEmailFormat == "Invalid email format"
MsgImageRequired == "School image is required"
MsgImageTooLarge == "Image size must be less than 5MB"
MsgSubmitFailed == "Failed to add school. Please try again."

TextFields == {"name", "address", "city", "state", "contact", "email_id"}

\* ContactPattern without its anchors: ten digits anywhere in the value
ContactPatternUnanchored(s) ==
    \E k \in 0..(Len(s) - 10) : \A i \in 1..10 : s[k + i] \in Digits

\* /^\d{10}$/
ContactPattern(s) == Len(s) = 10 /\ \A i \in 1..Len(s) : s[i] \in Digits

\* [^\s@]+ over s[from..to]
NoSpaceNoAt(s, from, to) ==
    /\ from <= to
    /\ \A i \in from..to : s[i] \notin Whitespace /\ s[i] # "@"

\* EmailPattern without the dot: /^[^\s@]+@[^\s@]+$/
EmailPatternNoDot(s) ==
    \E at \in 1..Len(s) :
        /\ s[at] = "@"
        /\ NoSpaceNoAt(s, 1, at - 1)
        /\ NoSpaceNoAt(s, at + 1, Len(s))

\* /^[^\s@]+@[^\s@]+\.[^\s@]+$/
EmailPattern(s) ==
    \E at \in 1..Len(s) : \E dot \in 1..Len(s) :
        /\ s[at] = "@"
        /\ s[dot] = "."
        /\ NoSpaceNoAt(s, 1, at - 1)
        /\ NoSpaceNoAt(s, at + 1, dot - 1)
        /\ NoSpaceNoAt(s, dot + 1, Len(s))

\* newErrors of validateForm, by key
ValidateForm(data) ==
    [name |-> IF ~Truthy(Trim(data.name)) THEN MsgNameRequired ELSE "",
     address |-> IF ~Truthy(Trim(data.address)) THEN MsgAddressRequired ELSE "",
     city |-> IF ~Truthy(Trim(data.city)) THEN MsgCityRequired ELSE "",
     state |-> IF ~Truthy(Trim(data.state)) THEN MsgStateRequired ELSE "",
     contact |-> IF ~Truthy(Trim(data.contact)) THEN MsgContactRequired
                 ELSE IF ~ContactPattern(data.contact) THEN MsgContactFormat
                 ELSE "",
     email_id |-> IF ~Truthy(Trim(data.email_id)) THEN MsgEmailRequired
                  ELSE IF ~EmailPattern(data.email_id) THEN MsgEmailFormat
                  ELSE "",
     image |-> IF data.image = NoImage THEN MsgImageRequired ELSE "",
     submit |-> ""]

\* Object.keys(newErrors).length === 0
NoMessage(newErrors) == \A k \in ErrorKeys : newErrors[k] = ""

\* { ...prev, [key]: msg }
WithError(prev, key, msg) == [prev EXCEPT ![key] = msg]

-----------------------------------------------------------------------------
(* AddSchoolForm: the handlers.                                            *)

ResetForm ==
    /\ formData' = InitialFormData
    /\ errors' = NoErrors
    /\ formLoading' = FALSE
    /\ imagePreview' = NoImage
    /\ readers' = << >>

ResetList ==
    /\ schools' = << >>
    /\ listLoading' = TRUE
    /\ filters' = EmptyFilter
    /\ tempFilters' = EmptyFilter
    /\ showSuggestions' = AllHidden
    /\ filteredSchools' = << >>
    /\ uniqueValues' = UniqueValuesOf(<< >>)
    /\ focused' = NoField
    /\ hideTimers' = NoTimers
    /\ lastEvent' = "init"

\* the calls of a component that has unmounted: their continuations still run,
\* their state updates no longer land
Orphaned(calls) == [i \in 1..Len(calls) |-> [calls[i] EXCEPT !.live = FALSE]]

\* onChange of the six text inputs
HandleChange(field, value) ==
    /\ FormMounted(currentPage, showSuccess)
    /\ formData' = IF formData[field] = value THEN formData
                   ELSE [formData EXCEPT ![field] = value]
    /\ errors' = IF errors[field] # "" THEN WithError(errors, field, "") ELSE errors
    /\ UNCHANGED <<formLoading, imagePreview, readers>>
    /\ UNCHANGED <<shellVars, gatewayVars, listVars>>

\* file.size > 5000000
MaxImageBytes == 5000000

NoFile == [size |-> 0, data |-> NoImage]

\* HandleImageChange without the size gate
HandleImageChangeNoGate(file) ==
    /\ FormMounted(currentPage, showSuccess)
    /\ IF file = NoFile
       THEN UNCHANGED readers
       ELSE /\ Len(readers) < MaxReaders
            /\ readers' = Append(readers, file)
    /\ UNCHANGED <<formData, errors, formLoading, imagePreview>>
    /\ UNCHANGED <<shellVars, gatewayVars, listVars>>

\* onChange of the file input: no file, one over the size gate, or one to read
HandleImageChange(file) ==
    /\ FormMounted(currentPage, showSuccess)
    /\ IF file = NoFile
       THEN UNCHANGED <<errors, readers>>
       ELSE IF file.size > MaxImageBytes
       THEN /\ errors' = WithError(errors, "image", MsgImageTooLarge)
            /\ UNCHANGED readers
       ELSE /\ Len(readers) < MaxReaders
            /\ readers' = Append(readers, file)
            /\ UNCHANGED errors
    /\ UNCHANGED <<formData, formLoading, imagePreview>>
    /\ UNCHANGED <<shellVars, gatewayVars, listVars>>

\* reader.onloadend: reader.result is the data URL, or null when the read failed
ReaderLoadEnd(i, ok) ==
    /\ i \in 1..Len(readers)
    /\ LET result == IF ok THEN readers[i].data ELSE NoImage
       IN  /\ imagePreview' = result
           /\ formData' = [formData EXCEPT !.image = result]
           /\ errors' = WithError(errors, "image", "")
    /\ readers' = SubSeq(readers, 1, i - 1) \o SubSeq(readers, i + 1, Len(readers))
    /\ UNCHANGED formLoading
    /\ UNCHANGED <<shellVars, gatewayVars, listVars>>

\* HandleSubmit calling addSchool whatever validateForm returned
HandleSubmitUnchecked ==
    /\ FormMounted(currentPage, showSuccess)
    /\ ~formLoading
    /\ Len(addCalls) < MaxInFlight
    /\ errors' = ValidateForm(formData)
    /\ formLoading' = TRUE
    /\ addCalls' = Append(addCalls, [schoolData |-> formData, live |-> TRUE])
    /\ UNCHANGED <<formData, imagePreview, readers>>
    /\ UNCHANGED <<shellVars, storage, loadCalls, addResult, listVars>>

\* handleSubmit up to its await: validateForm, then the call of mockAPI.addSchool
HandleSubmit ==
    /\ FormMounted(currentPage, showSuccess)
    /\ ~formLoading
    /\ errors' = ValidateForm(formData)
    /\ IF NoMessage(ValidateForm(formData))
       THEN /\ Len(addCalls) < MaxInFlight
            /\ formLoading' = TRUE
            /\ addCalls' = Append(addCalls, [schoolData |-> formData, live |-> TRUE])
       ELSE UNCHANGED <<formLoading, addCalls>>
    /\ UNCHANGED <<formData, imagePreview, readers>>
    /\ UNCHANGED <<shellVars, storage, loadCalls, addResult, listVars>>

-----------------------------------------------------------------------------
(* mockAPI.addSchool past its timer, and what handleSubmit does after it.  *)

\* AddSchoolResolve numbering the new record by the count before the push
AddSchoolResolveZeroBased(createdAt) ==
    /\ Len(addCalls) > 0
    /\ Len(StoredSchools(storage)) < MaxSchools
    /\ successTimers < MaxSuccessTimers
    /\ LET list == StoredSchools(storage)
           newSchool == NewSchool(Len(list), Head(addCalls).schoolData, createdAt)
       IN  /\ storage' = Item(Append(list, newSchool))
           /\ addResult' = [kind |-> "resolved", value |-> <<newSchool>>]
    /\ addCalls' = Orphaned(Tail(addCalls))
    /\ loadCalls' = Orphaned(loadCalls)
    /\ showSuccess' = TRUE
    /\ successTimers' = successTimers + 1
    /\ ResetForm
    /\ ResetList
    /\ UNCHANGED currentPage

\* addSchool appends and resolves; handleSubmit calls onSuccess, which shows the
\* success screen (unmounting either view) and starts its 2000 ms timer
AddSchoolResolve(createdAt) ==
    /\ Len(addCalls) > 0
    /\ Len(StoredSchools(storage)) < MaxSchools
    /\ successTimers < MaxSuccessTimers
    /\ LET list == StoredSchools(storage)
           newSchool == NewSchool(Len(list) + 1, Head(addCalls).schoolData, createdAt)
       IN  /\ storage' = Item(Append(list, newSchool))
           /\ addResult' = [kind |-> "resolved", value |-> <<newSchool>>]
    /\ addCalls' = Orphaned(Tail(addCalls))
    /\ loadCalls' = Orphaned(loadCalls)
    /\ showSuccess' = TRUE
    /\ successTimers' = successTimers + 1
    /\ ResetForm
    /\ ResetList
    /\ UNCHANGED currentPage

\* AddSchoolReject without the finally block: loading is left set
AddSchoolRejectNoFinally ==
    /\ Len(addCalls) > 0
    /\ addResult' = [kind |-> "rejected", value |-> << >>]
    /\ addCalls' = Tail(addCalls)
    /\ errors' = IF Head(addCalls).live
                 THEN WithError(NoErrors, "submit", MsgSubmitFailed)
                 ELSE errors
    /\ UNCHANGED <<formData, formLoading, imagePreview, readers>>
    /\ UNCHANGED <<shellVars, storage, loadCalls, listVars>>

\* the read or the write of the stored item throws; handleSubmit catches it
AddSchoolReject ==
    /\ Len(addCalls) > 0
    /\ addResult' = [kind |-> "rejected", value |-> << >>]
    /\ addCalls' = Tail(addCalls)
    /\ IF Head(addCalls).live
       THEN /\ errors' = WithError(NoErrors, "submit", MsgSubmitFailed)
            /\ formLoading' = FALSE
       ELSE UNCHANGED <<errors, formLoading>>
    /\ UNCHANGED <<formData, imagePreview, readers>>
    /\ UNCHANGED <<shellVars, storage, loadCalls, listVars>>

-----------------------------------------------------------------------------
(* SchoolManagementApp.                                                    *)

\* onAddNew: the listing view unmounts, a fresh form mounts
OnAddNew ==
    /\ PanelShown
    /\ currentPage' = "add"
    /\ loadCalls' = Orphaned(loadCalls)
    /\ ResetList
    /\ UNCHANGED <<showSuccess, successTimers, storage, addCalls, addResult, formVars>>

\* onCancel: the form unmounts, a fresh listing view mounts and loads
OnCancel ==
    /\ FormMounted(currentPage, showSuccess)
    /\ Len(loadCalls) < MaxInFlight
    /\ currentPage' = "list"
    /\ addCalls' = Orphaned(addCalls)
    /\ loadCalls' = Append(loadCalls, [live |-> TRUE])
    /\ ResetForm
    /\ UNCHANGED <<showSuccess, successTimers, storage, addResult, listVars>>

\* the 2000 ms timer of handleAddSuccess fires
SuccessTimeout ==
    /\ successTimers > 0
    /\ successTimers' = successTimers - 1
    /\ showSuccess' = FALSE
    /\ currentPage' = "list"
    /\ IF ListMounted(currentPage, showSuccess)
       THEN UNCHANGED loadCalls
       ELSE /\ Len(loadCalls) < MaxInFlight
            /\ loadCalls' = Append(loadCalls, [live |-> TRUE])
    /\ IF FormMounted(currentPage, showSuccess)
       THEN /\ addCalls' = Orphaned(addCalls)
            /\ ResetForm
       ELSE UNCHANGED <<addCalls, formVars>>
    /\ UNCHANGED <<storage, addResult, listVars>>

-----------------------------------------------------------------------------
(* The listing view over a store left by earlier sessions.                 *)

InitOver(items) ==
    /\ currentPage = "list"
    /\ showSuccess = FALSE
    /\ successTimers = 0
    /\ storage \in items
    /\ addCalls = << >>
    /\ loadCalls = <<[live |-> TRUE]>>
    /\ addResult = NoResult
    /\ UnmountedForm
    /\ MountedList

\* longest store the listing view starts over
MaxListLen == 1

InitList == InitOver(StoredItems(ListBases, MaxListLen))

\* the filter panel without its focus events
NextList ==
    \/ GetSchoolsResolve
    \/ GetSchoolsReject
    \/ \E f \in FilterFields : \E v \in ListDrafts[f] : HandleTempFilterChange(f, v)
    \/ \E k \in Keys : HandleKeyPress(k)
    \/ HandleSearch
    \/ ClearFilters
    \/ \E f \in FilterFields : \E v \in Range(GetSuggestions(f)) : SelectSuggestion(f, v)

SpecList == InitList /\ [][NextList]_vars

-----------------------------------------------------------------------------
(* The matching pass over richer committed filters, and the suggestion     *)
(* lists over longer stores.                                               *)

InitMatch == InitOver(StoredItems(ListBases, MaxMatchLen))

NextMatch ==
    \/ GetSchoolsResolve
    \/ \E f \in FilterFields : \E v \in MatchDrafts[f] : HandleTempFilterChange(f, v)
    \/ HandleSearch
    \/ ClearFilters

SpecMatch == InitMatch /\ [][NextMatch]_vars

InitSuggest == InitOver(DistinctStoredItems(SuggestBases, MaxSuggestLen))

NextSuggest ==
    \/ GetSchoolsResolve
    \/ \E f \in FilterFields : \E v \in SuggestDrafts[f] : HandleTempFilterChange(f, v)

SpecSuggest == InitSuggest /\ [][NextSuggest]_vars

-----------------------------------------------------------------------------
(* The filter panel with its focus events.  The browser delivers an edit   *)
(* to the input that has focus, and a mouse press on a suggestion takes    *)
(* focus from the input (its blur runs) before the click is delivered.     *)

FocusBases == <<ValidBase(TxtOakHill, TxtAustin, TxtTX)>>

FocusDrafts == [name |-> {EmptyStr, TxtOakLower},
                city |-> {EmptyStr, TxtAus},
                state |-> {EmptyStr}]

InitFocus == InitOver({Item(StoredFrom(FocusBases))})

NextFocus ==
    \/ GetSchoolsResolve
    \/ \E f \in FilterFields : OnFocus(f)
    \/ \E f \in FilterFields : OnBlur(f)
    \/ \E f \in FilterFields : HideTimerFire(f)
    \/ \E f \in FilterFields : \E v \in FocusDrafts[f] :
           focused = f /\ HandleTempFilterChange(f, v)
    \/ \E f \in FilterFields : \E v \in Range(GetSuggestions(f)) :
           focused = NoField /\ SelectSuggestion(f, v)
    \/ HandleSearch
    \/ ClearFilters

SpecFocus == InitFocus /\ [][NextFocus]_vars

\* a timer set with setTimeout fires
SpecFocusFair ==
    SpecFocus /\ \A f \in FilterFields : WF_vars(HideTimerFire(f))

-----------------------------------------------------------------------------
(* The application: navigation, the form and the gateway.                  *)

FormValues == [name |-> {TxtSpace, TxtOakHill},
               address |-> {TxtMainSt},
               city |-> {TxtAustin},
               state |-> {TxtTX},
               contact |-> {TxtNineDigits, TxtTenDigits},
               email_id |-> {TxtMailNoDot, TxtMail}]

\* one file at the size gate, two over it
Files == {NoFile,
          [size |-> 5000000, data |-> DataUrl1],
          [size |-> 5000001, data |-> DataUrl2],
          [size |-> 6000000, data |-> DataUrl3]}

Init == InitOver({NoItem})

Next ==
    \/ OnAddNew
    \/ OnCancel
    \/ SuccessTimeout
    \/ \E f \in TextFields : \E v \in FormValues[f] : HandleChange(f, v)
    \/ \E file \in Files : HandleImageChange(file)
    \/ \E i \in 1..MaxReaders : \E ok \in BOOLEAN : ReaderLoadEnd(i, ok)
    \/ HandleSubmit
    \/ \E t \in Timestamps : AddSchoolResolve(t)
    \/ AddSchoolReject
    \/ GetSchoolsResolve
    \/ GetSchoolsReject

Spec == Init /\ [][Next]_vars

\* a mounted form whose contact and email inputs take richer values
ValidateValues == [contact |-> {EmptyStr, TxtSpace, TxtNineDigits, TxtTenDigits,
                                TxtElevenDigits, TxtTenWithLetter, TxtTenThenSpace},
                   email_id |-> {EmptyStr, TxtSpace, TxtMail, TxtMailNoDot,
                                 TxtMailDotFirst, TxtMailDotLast, TxtMailNoLocal,
                                 TxtMailTwoAts, TxtMailSpace, TxtMailNoAt, TxtMailDots,
                                 TxtMailDotBeforeAt}]

NextValidate ==
    \/ OnAddNew
    \/ GetSchoolsResolve
    \/ \E f \in DOMAIN ValidateValues : \E v \in ValidateValues[f] : HandleChange(f, v)
    \/ HandleSubmit

SpecValidate == Init /\ [][NextValidate]_vars

-----------------------------------------------------------------------------
(* Claims about the listing view.                                          *)

\* C1: the committed filter changes only in a search step (the button or Enter),
\* which sets it to the draft, or in a clear step; a draft edit leaves the
\* committed filter and the visible result unchanged.
CommitProtocol ==
    [][/\ (filters' # filters => lastEvent' \in {"search", "clear"})
       /\ (lastEvent' = "search" => filters' = tempFilters)
       /\ (lastEvent' = "edit" => filters' = filters /\ filteredSchools' = filteredSchools)
      ]_vars

\* a search committed a draft, and a later edit left the committed filter behind
CommitProtocolWitness ==
    /\ lastEvent = "edit"
    /\ Truthy(filters.name)
    /\ tempFilters # filters
    /\ Len(filteredSchools) > 0

\* C4: a clear step leaves the draft and the committed filter all-empty and all
\* three suggestion lists hidden.
ClearResetsAll ==
    lastEvent = "clear" =>
        /\ filters = EmptyFilter
        /\ tempFilters = EmptyFilter
        /\ showSuggestions = AllHidden

\* the clear step has run over a loaded, non-empty record set
ClearResetsAllWitness ==
    /\ lastEvent = "clear"
    /\ Len(schools) > 0
    /\ filteredSchools = schools

\* text contains part, letter case ignored
ContainsIgnoringCase(text, part) ==
    \E k \in 0..(Len(text) - Len(part)) :
        \A j \in 1..Len(part) : ToLowerChar(text[k + j]) = ToLowerChar(part[j])

\* result holds exactly the elements of list at the positions in idx, in order
IsSelection(result, list, idx) ==
    /\ Len(result) = Cardinality(idx)
    /\ \A i \in idx : result[Cardinality({j \in idx : j <= i})] = list[i]

\* C2 as stated: every filter field other than the empty string constrains.
MatchingNonEmptyConstrains ==
    IsSelection(filteredSchools, schools,
                {i \in 1..Len(schools) :
                    \A f \in FilterFields :
                        filters[f] # EmptyStr
                            => ContainsIgnoringCase(schools[i][f], filters[f])})

\* C2: the visible result is the subsequence, in input order, of the records that
\* contain, letter case ignored, every filter text that is not empty after
\* trimming; an empty or whitespace-only filter text imposes no constraint.
MatchingTrimmedConstrains ==
    IsSelection(filteredSchools, schools,
                {i \in 1..Len(schools) :
                    \A f \in FilterFields :
                        (\E j \in 1..Len(filters[f]) : filters[f][j] \notin Whitespace)
                            => ContainsIgnoringCase(schools[i][f], filters[f])})

\* an upper-case name filter and a whitespace-only city filter are committed, and
\* some but not all records are shown
MatchingWitness ==
    /\ filters.name = TxtOakUpper
    /\ filters.city = TxtTab
    /\ Len(filteredSchools) > 0
    /\ Len(filteredSchools) < Len(schools)

\* the first position of v among the values of field f
FirstSeen(list, f, v) == SetMin({i \in 1..Len(list) : list[i][f] = v})

\* C3: the suggestions of a field are the first at most 5 distinct values of the
\* field, in first-seen order, that start with the draft text, letter case
\* ignored; never more than 5, never a duplicate, none for the empty draft.
SuggestionsArePrefixMatches ==
    \A f \in FilterFields :
        LET r == GetSuggestions(f)
            draft == tempFilters[f]
            matching == {v \in {schools[i][f] : i \in 1..Len(schools)} :
                            /\ Len(draft) <= Len(v)
                            /\ \A j \in 1..Len(draft) :
                                   ToLowerChar(v[j]) = ToLowerChar(draft[j])}
        IN  /\ Len(r) <= 5
            /\ \A i, j \in 1..Len(r) : i # j => r[i] # r[j]
            /\ draft = EmptyStr => r = << >>
            /\ draft # EmptyStr =>
                  /\ Range(r) \subseteq matching
                  /\ \A i, j \in 1..Len(r) :
                         i < j => FirstSeen(schools, f, r[i]) < FirstSeen(schools, f, r[j])
                  /\ \A v \in matching \ Range(r) :
                         /\ Len(r) = 5
                         /\ \A i \in 1..Len(r) :
                                FirstSeen(schools, f, r[i]) < FirstSeen(schools, f, v)

\* six distinct names match the draft and five are offered, while the city draft
\* leaves out a value that only contains it
SuggestionsWitness ==
    /\ Len(uniqueValues.name) > 5
    /\ tempFilters.name = TxtOaUpper
    /\ Len(GetSuggestions("name")) = 5
    /\ tempFilters.city = TxtA
    /\ TxtDallas \in Range(uniqueValues.city)
    /\ TxtDallas \notin Range(GetSuggestions("city"))
    /\ Len(schools) > Len(uniqueValues.state)

-----------------------------------------------------------------------------
(* Claims about the form and the gateway.                                  *)

\* a candidate every rule of which is met, stated without the validator
Acceptable(data) ==
    /\ \A f \in {"name", "address", "city", "state"} :
           \E i \in 1..Len(data[f]) : data[f][i] \notin Whitespace
    /\ Len(data.contact) = 10
    /\ Range(data.contact) \subseteq Digits
    /\ EmailPattern(data.email_id)
    /\ data.image # NoImage

\* C5: addSchool is called only by a submit whose validation found no error, so
\* every stored record (and every record on its way to the store) has non-blank
\* name, address, city and state, a contact of exactly 10 digits, an email the
\* email rule accepts and an image; a submit that changes storage or the calls
\* in flight was made on such data, so a submit with an error changes neither.
ValidationBlocksSubmission ==
    /\ [](/\ \A i \in 1..Len(StoredSchools(storage)) :
                Acceptable(StoredSchools(storage)[i])
          /\ \A i \in 1..Len(addCalls) : Acceptable(addCalls[i].schoolData))
    /\ [][/\ Len(addCalls') > Len(addCalls) => Acceptable(formData)
          /\ (storage' # storage \/ addCalls' # addCalls)
                 => (HandleSubmit => Acceptable(formData))
         ]_vars

\* one record is stored, and a later submit with a nine-digit contact was refused
ValidationBlocksSubmissionWitness ==
    /\ Len(StoredSchools(storage)) = 1
    /\ FormMounted(currentPage, showSuccess)
    /\ formData.contact = TxtNineDigits
    /\ errors.contact = MsgContactFormat
    /\ addCalls = << >>
    /\ ~formLoading

\* exactly one "@", something before it, something after it, a "." after it
LooseEmailShape(s) ==
    /\ Cardinality({i \in 1..Len(s) : s[i] = "@"}) = 1
    /\ \E at \in 2..(Len(s) - 1) :
           /\ s[at] = "@"
           /\ \E dot \in (at + 1)..Len(s) : s[dot] = "."

\* C6 as stated: an email error iff the value lacks a single "@" with non-empty
\* parts on both sides and a "." after the "@".
EmailErrorIffLooseShapeLacking ==
    ValidateForm(formData).email_id # "" <=> ~LooseEmailShape(formData.email_id)

\* no whitespace, exactly one "@", something before it, and after it a "." with
\* something between the two and something after the "."
StrictEmailShape(s) ==
    /\ \A i \in 1..Len(s) : s[i] \notin Whitespace
    /\ Cardinality({i \in 1..Len(s) : s[i] = "@"}) = 1
    /\ \E at \in 2..Len(s) :
           /\ s[at] = "@"
           /\ \E dot \in (at + 2)..(Len(s) - 1) : s[dot] = "."

\* C6: validation returns an email error iff the value is not of the shape
\* local@domain.tld: no whitespace, exactly one "@", a non-empty part before it,
\* and after it a "." that has at least one character on each side.
EmailErrorIffStrictShapeLacking ==
    LET msg == ValidateForm(formData).email_id
        email == formData.email_id
    IN  /\ msg # "" <=> ~StrictEmailShape(email)
        /\ msg \in {"", MsgEmailRequired, MsgEmailFormat}

\* a submit has reported a format error for "a@.b"
EmailErrorWitness ==
    /\ formData.email_id = TxtMailDotFirst
    /\ errors.email_id = MsgEmailFormat

\* C7: validation returns a contact error iff the value is not exactly 10
\* decimal digits: Required for an empty or whitespace-only value, InvalidFormat
\* for any other value that is not 10 digits.
ContactErrorIffNotTenDigits ==
    LET msg == ValidateForm(formData).contact
        contact == formData.contact
        tenDigits == Len(contact) = 10 /\ Range(contact) \subseteq Digits
        blank == Range(contact) \subseteq Whitespace
    IN  /\ msg # "" <=> ~tenDigits
        /\ blank => msg = MsgContactRequired
        /\ (~blank /\ ~tenDigits) => msg = MsgContactFormat

\* a submit has reported a format error for ten digits followed by a space
ContactErrorWitness ==
    /\ formData.contact = TxtTenThenSpace
    /\ errors.contact = MsgContactFormat

\* C8: when the append of a validated submit fails, the form's errors become the
\* single SubmitFailed message, its data and image stay as they are, onSuccess is
\* not called, and loading returns to false with the form still shown.
GatewayFailureKeepsForm ==
    [][(/\ Len(addCalls) > 0
        /\ Head(addCalls).live
        /\ addCalls' = Tail(addCalls)
        /\ storage' = storage)
       => /\ errors' = [k \in ErrorKeys |->
                           IF k = "submit" THEN MsgSubmitFailed ELSE ""]
          /\ formData' = formData
          /\ imagePreview' = imagePreview
          /\ showSuccess' = showSuccess
          /\ successTimers' = successTimers
          /\ currentPage' = currentPage
          /\ formLoading /\ ~formLoading'
          /\ FormMounted(currentPage', showSuccess')
      ]_vars

\* the failure has been reported on a form that is still filled in and enabled
GatewayFailureWitness ==
    /\ errors.submit = MsgSubmitFailed
    /\ addResult.kind = "rejected"
    /\ Acceptable(formData)
    /\ ~formLoading
    /\ FormMounted(currentPage, showSuccess)
    /\ storage = NoItem

\* C9: a file of more than 5,000,000 bytes sets the image error to TooLarge and
\* is never attached: the candidate's image stays as it was and no reader is
\* started for it; a file of at most 5,000,000 bytes is handed to a reader.
OversizedImageGate ==
    /\ [](LET big == {file.data : file \in {g \in Files : g.size > 5000000}}
          IN  /\ formData.image \notin big
              /\ imagePreview \notin big
              /\ \A i \in 1..Len(readers) : readers[i].data \notin big
              /\ \A i \in 1..Len(addCalls) : addCalls[i].schoolData.image \notin big)
    /\ [][\A file \in Files \ {NoFile} :
            /\ (HandleImageChange(file) /\ file.size > 5000000)
                  => /\ errors'.image = MsgImageTooLarge
                     /\ formData' = formData
                     /\ readers' = readers
            /\ (HandleImageChange(file) /\ file.size <= 5000000)
                  => readers' = Append(readers, file)
         ]_vars

\* an oversized file has been refused and the record's image is still unset
OversizedImageWitness ==
    /\ errors.image = MsgImageTooLarge
    /\ formData.image = NoImage
    /\ imagePreview = NoImage
    /\ readers = << >>

\* C10: an append over n stored records stores and returns a record with id n+1
\* and a non-empty creation timestamp at the end of the sequence; so the record at
\* position k has id k, ids are pairwise distinct and never change, and a load
\* returns the stored records in insertion order (none when nothing is stored).
SequentialIdentifiers ==
    /\ [](LET list == StoredSchools(storage)
          IN  /\ \A k \in 1..Len(list) : list[k].id = k /\ Len(list[k].createdAt) > 0
              /\ \A j, k \in 1..Len(list) : j # k => list[j].id # list[k].id)
    /\ [][LET old == StoredSchools(storage)
              new == StoredSchools(storage')
          IN  /\ Len(new) >= Len(old)
              /\ SubSeq(new, 1, Len(old)) = old
              /\ Len(new) > Len(old) =>
                    /\ Len(new) = Len(old) + 1
                    /\ new[Len(new)].id = Len(old) + 1
                    /\ Len(addCalls) > 0
                    /\ \A f \in DOMAIN InitialFormData :
                           new[Len(new)][f] = Head(addCalls).schoolData[f]
                    /\ addResult' = [kind |-> "resolved", value |-> <<new[Len(new)]>>]
              /\ (/\ Len(loadCalls) > 0
                  /\ Head(loadCalls).live
                  /\ loadCalls' = Tail(loadCalls)
                  /\ lastEvent' = "loaded")
                    => /\ storage.present => schools' = storage.value
                       /\ ~storage.present => schools' = << >>
         ]_vars

\* two appends have been stored and a later load has returned both
SequentialIdentifiersWitness ==
    /\ Len(StoredSchools(storage)) = 2
    /\ schools = StoredSchools(storage)
    /\ schools[2].id = 2
    /\ lastEvent = "loaded"

-----------------------------------------------------------------------------
(* Claims about suggestion selection, calls in flight and focus.           *)

\* C11: a step that selects a suggestion of a field hides that field's list and
\* sets that field's draft to the full stored value selected (one of the field's
\* distinct values, starting with the old draft, letter case ignored); it leaves
\* the committed filter, the visible result, the other two drafts and the other
\* two lists' visibility as they were.  The committed filter of a field takes a
\* new non-empty value only in a search step, which copies the draft.
SelectionUpdatesDraftOnly ==
    [][/\ lastEvent' = "select" =>
              \E f \in FilterFields :
                  /\ showSuggestions[f]
                  /\ ~showSuggestions'[f]
                  /\ tempFilters'[f] \in Range(uniqueValues[f])
                  /\ StartsWith(ToLowerCase(tempFilters'[f]), ToLowerCase(tempFilters[f]))
                  /\ Truthy(tempFilters[f])
                  /\ \A g \in FilterFields \ {f} :
                         /\ tempFilters'[g] = tempFilters[g]
                         /\ showSuggestions'[g] = showSuggestions[g]
                  /\ filters' = filters
                  /\ filteredSchools' = filteredSchools
       /\ \A f \in FilterFields :
              (filters'[f] # filters[f] /\ Truthy(filters'[f]))
                  => lastEvent' = "search" /\ filters' = tempFilters
      ]_vars

\* "Oak Hill" was selected for the draft "oak": the name draft holds the full
\* value, the committed filter is still empty, and the city list, opened by an
\* earlier edit, is still shown
SelectionUpdatesDraftOnlyWitness ==
    /\ lastEvent = "select"
    /\ tempFilters.name = TxtOakHill
    /\ ~showSuggestions.name
    /\ filters = EmptyFilter
    /\ Truthy(tempFilters.city)
    /\ showSuggestions.city
    /\ filteredSchools = schools

\* C12: in every reachable state at most one addSchool call and at most one
\* getSchools call have been started and not yet completed.
AtMostOneCallInFlight ==
    /\ Len(addCalls) <= 1
    /\ Len(loadCalls) <= 1

\* C12, what the code does keep: each mounted component has at most one call of
\* its own outstanding (the submit button is disabled while its form is loading;
\* a listing view loads once, on mount); calls of unmounted components come on top.
OneCallPerMountedComponent ==
    /\ Cardinality({i \in 1..Len(addCalls) : addCalls[i].live}) <= 1
    /\ Cardinality({i \in 1..Len(loadCalls) : loadCalls[i].live}) <= 1
    /\ (formLoading <=> \E i \in 1..Len(addCalls) : addCalls[i].live)

\* C13: a blur step leaves every list's visibility and every draft as they were
\* and only starts the field's timer; while that timer is pending and the list
\* is still shown, a click on any of its suggestions is possible, and the click
\* sets the field's draft to the clicked suggestion without touching the timer;
\* the timer firing later leaves the drafts and the committed filter alone; and
\* whenever a blur timer of a field is pending, the field's list eventually is
\* hidden.
BlurGraceDelay ==
    /\ [][/\ lastEvent' = "blur" =>
                  /\ showSuggestions' = showSuggestions
                  /\ tempFilters' = tempFilters
                  /\ focused # NoField
                  /\ hideTimers' = [hideTimers EXCEPT ![focused] = @ + 1]
          /\ \A f \in FilterFields :
                  (lastEvent' = "select" /\ hideTimers[f] > 0
                       /\ showSuggestions[f] /\ ~showSuggestions'[f])
                      => /\ tempFilters'[f] \in Range(GetSuggestions(f))
                         /\ hideTimers' = hideTimers
          /\ lastEvent' = "hide" => tempFilters' = tempFilters /\ filters' = filters
          ]_vars
    /\ [](\A f \in FilterFields :
              (focused = NoField /\ hideTimers[f] > 0 /\ showSuggestions[f])
                  => \A v \in Range(GetSuggestions(f)) : ENABLED SelectSuggestion(f, v))
    /\ \A f \in FilterFields : (hideTimers[f] > 0) ~> ~showSuggestions[f]

\* the name input lost focus, "Oak Hill" was clicked while the blur timer was
\* still pending, the timer then fired: the draft keeps the clicked value
BlurGraceDelayWitness ==
    /\ lastEvent = "hide"
    /\ focused = NoField
    /\ hideTimers = NoTimers
    /\ tempFilters.name = TxtOakHill
    /\ ~showSuggestions.name

\* C14: the list of the field that has focus, shown for a non-empty draft, is
\* hidden while the field keeps focus only by a suggestion selection, a clear
\* step or an edit to the empty text; never by a timer of an earlier blur.
NoStaleHide ==
    [][\A f \in FilterFields :
           (/\ focused = f /\ focused' = f
            /\ Truthy(tempFilters[f])
            /\ showSuggestions[f] /\ ~showSuggestions'[f])
               => \/ lastEvent' = "select"
                  \/ lastEvent' = "clear"
                  \/ lastEvent' = "edit" /\ ~Truthy(tempFilters'[f])
      ]_vars

\* C14, what the code does: besides those three steps, the one step that hides
\* the focused field's shown list is the firing of a timer that an earlier blur
\* of the same field started and that regaining focus did not cancel.
HiddenInFocusOnlyByStaleTimer ==
    [][\A f \in FilterFields :
           (/\ focused = f /\ focused' = f
            /\ Truthy(tempFilters[f])
            /\ showSuggestions[f] /\ ~showSuggestions'[f])
               => \/ lastEvent' = "select"
                  \/ lastEvent' = "clear"
                  \/ lastEvent' = "edit" /\ ~Truthy(tempFilters'[f])
                  \/ /\ lastEvent' = "hide"
                     /\ hideTimers[f] > 0
                     /\ hideTimers'[f] = hideTimers[f] - 1
                     /\ tempFilters' = tempFilters
      ]_vars

\* the name input has focus and holds the draft "oak", and a timer has just
\* hidden its list
StaleHideWitness ==
    /\ lastEvent = "hide"
    /\ focused = "name"
    /\ tempFilters.name = TxtOakLower
    /\ ~showSuggestions.name
    /\ Len(GetSuggestions("name")) > 0

====
